---- MODULE Spec2Model ----
(***************************************************************************)
(* Model of the Tauri backend of mcsdevv/screenshot: the shared AppState   *)
(* (src-tauri/src/state/app_state.rs), the recording session commands      *)
(* (capture/recording.rs, capture/commands.rs) and the storage commands    *)
(* (services/storage/manager.rs, services/storage/commands.rs).            *)
(*                                                                         *)
(* Every command is invoked by one of a set of concurrent callers (Tauri   *)
(* runs each command on its own task).  A command is cut into steps at the *)
(* points where it takes or releases a Mutex guard: nothing between two    *)
(* such points is visible to another caller.                               *)
(***************************************************************************)
EXTENDS Integers, Sequences, FiniteSets, TLC

\* ------------------------------------------------------------------ bounds
\* Number of concurrent callers of the command surface.
NumCallers == 2
\* Largest elapsed_seconds an initial Recording state is drawn with.
MaxElapsed == 1

\* Number of captures whose item is created (ids handed out by Uuid::new_v4).
MaxCaptures == 2
\* Last clock second the model reaches.
MaxClock == 1
\* Number of file-system operations that fail over a run.
MaxFaults == 1
\* bitmaps of at most MaxWidth x MaxHeight pixels, at most MaxPadding bytes of
\* row padding, and a byte view of at most MaxBytes bytes
MaxWidth == 2
MaxHeight == 2
MaxPadding == 4
MaxBytes == 16

Callers == 1..NumCallers
NoCaller == 0

\* ------------------------------------------------- RecordingSessionState
Idle == [state |-> "Idle"]
Selecting == [state |-> "Selecting"]
Starting == [state |-> "Starting"]
Recording(e) == [state |-> "Recording", elapsed_seconds |-> e]
Stopping == [state |-> "Stopping"]
Completed == [state |-> "Completed"]
Failed(m) == [state |-> "Failed", message |-> m]
Cancelled == [state |-> "Cancelled"]

\* Every value of the enum (elapsed and message from small sets).
RecordingSessionState ==
    {Idle, Selecting, Starting, Stopping, Completed, Cancelled}
        \cup {Recording(e) : e \in 0..MaxElapsed}
        \cup {Failed(m) : m \in {"platform error"}}

TerminalStates == {"Completed", "Failed", "Cancelled"}

\* ------------------------------------------------------------ CaptureError
RecordingFailed(m) == [tag |-> "Err", kind |-> "RecordingFailed", msg |-> m]
RecordingNotActive == [tag |-> "Err", kind |-> "RecordingNotActive"]
OkUnit == [tag |-> "Ok", val |-> "unit"]

AlreadyInProgress == "Recording already in progress"
StartNotIntegrated ==
    "Screen recording requires ScreenCaptureKit Swift bridge (not yet integrated)"
StopNotIntegrated ==
    "Screen recording stop requires ScreenCaptureKit Swift bridge (not yet integrated)"

CaptureFailed(m) == [tag |-> "Err", kind |-> "CaptureFailed", msg |-> m]
IoError == [tag |-> "Err", kind |-> "Io"]
OkItem(item) == [tag |-> "Ok", item |-> item]
OkBool(b) == [tag |-> "Ok", val |-> b]

\* ----------------------------------------------------------------- storage
\* config.rs ImageFormat and commands.rs format_extension
ImageFormat == {"Png", "Jpeg", "Tiff"}
\* The formats the capture commands are called with.
Formats == {"Png", "Jpeg"}
format_extension(format) ==
    CASE format = "Png" -> "png"
      [] format = "Jpeg" -> "jpg"
      [] format = "Tiff" -> "tiff"

\* The encoded bytes a capture hands to save_screenshot.
Images == {"imageA", "imageB"}
\* What a failed std::fs::write may leave behind: the file was created or
\* truncated and not all of the bytes reached it.
Partial == "partial"

CaptureCommands == {"capture_fullscreen", "capture_area", "capture_window"}

\* screenshot.rs 39-53: #[cfg(target_os = "macos")] selects the body of the
\* three capture functions when the crate is built.
TargetOs == {"macos", "other"}
NotSupported == "Not supported on this platform"

\* screenshot.rs 42-45, 70-73, 100-105: the platform call returned null.
returned_null(op) ==
    CASE op = "capture_fullscreen" -> "CGDisplayCreateImage returned null"
      [] op = "capture_area" -> "CGDisplayCreateImageForRect returned null"
      [] op = "capture_window" -> "CGWindowListCreateImage returned null"

\* error.rs 32-33: an encoder failure passed on by `?`
ImageError == [tag |-> "Err", kind |-> "Image"]

\* screenshot.rs 129-141, 177-178, 185-193: what encode_cgimage_raw fails with.
EncodeErrors ==
    {CaptureFailed(m) : m \in {"Empty image", "No data provider", "Failed to copy data",
                               "Pixel buffer size mismatch"}}
        \cup {ImageError}

\* ------------------------------------------------------------------- state
VARIABLES
    recording_state,   \* AppState.recording_state: the value inside the Mutex
    recording_guard,   \* the caller holding recording_state's MutexGuard, or NoCaller
    history,           \* AppState.storage: StorageManager.history.items
    storage_guard,     \* the caller holding storage's MutexGuard, or NoCaller
    history_json,      \* the file history.json in the data directory
    files,             \* the artifact directory: filename -> bytes
    clock,             \* the wall clock, in seconds
    next_uuid,         \* the ids Uuid::new_v4 has not handed out yet start here
    faults,            \* how many file-system operations have failed so far
    target_os,         \* the target the crate was built for
    cg_image,          \* the bitmap encode_cgimage_raw is handed
    encoded,           \* what encode_cgimage_raw made of it
    buf,               \* the encoder the image was handed to and what it returned
    handles,           \* the CGImage and the CFData copy: held or released, and how often
    pc,                \* each caller's position in the command it is running
    call,              \* each caller's running command: what it saw and wrote so far
    result             \* the command that returned last: who, what it saw, wrote and returned

recording_vars == <<recording_state, recording_guard>>
\* the capture pipeline, which runs outside both guards
capture_vars == <<target_os, cg_image, encoded, buf, handles>>
\* the storage side and the capture pipeline that feeds it
storage_vars == <<history, storage_guard, history_json, files, next_uuid, faults,
                  capture_vars>>
vars == <<recording_state, recording_guard, history, storage_guard, history_json,
          files, clock, next_uuid, faults, target_os, cg_image, encoded, buf, handles, pc, call,
          result>>

NoCall == [op |-> "none"]
NoResult == [op |-> "none"]

\* A command begins: it waits for the recording-state guard and gets it.
\* pre is the state the caller finds under the guard; writes collects every
\* value the command assigns to the state.
LockRecording(p, op, next) ==
    /\ pc[p] = "idle"
    /\ recording_guard = NoCaller
    /\ recording_guard' = p
    /\ pc' = [pc EXCEPT ![p] = next]
    /\ call' = [call EXCEPT ![p] = [op |-> op, pre |-> recording_state, writes |-> <<>>]]
    /\ UNCHANGED result
    /\ UNCHANGED <<recording_state, storage_vars, clock>>

\* A command returns ret; post is the recording state at that moment.
Return(p, ret, post, writes) ==
    /\ pc' = [pc EXCEPT ![p] = "idle"]
    /\ result' = [caller |-> p, op |-> call[p].op, pre |-> call[p].pre, post |-> post,
                   writes |-> writes, ret |-> ret]
    /\ call' = [call EXCEPT ![p] = NoCall]

\* ---------------------------------------------------------- start_recording
start_recording_lock(p) == LockRecording(p, "start_recording", "start_check")

\* start_recording with the check matching Recording{..} alone.
start_recording_check_recording_only(p) ==
    /\ pc[p] = "start_check"
    /\ recording_guard = p
    /\ recording_guard' = NoCaller
    /\ UNCHANGED <<storage_vars, clock>>
    /\ UNCHANGED recording_state
    /\ IF recording_state.state = "Recording"
       THEN Return(p, RecordingFailed(AlreadyInProgress), recording_state, call[p].writes)
       ELSE /\ pc' = [pc EXCEPT ![p] = "start_platform"]
            /\ UNCHANGED <<call, result>>

\* recording.rs 27-32: the check, in a block of its own; the guard is dropped
\* at the end of the block whether or not the call returns.
start_recording_check(p) ==
    /\ pc[p] = "start_check"
    /\ recording_guard = p
    /\ recording_guard' = NoCaller
    /\ UNCHANGED <<storage_vars, clock>>
    /\ UNCHANGED recording_state
    /\ IF recording_state.state \in {"Recording", "Starting"}
       THEN Return(p, RecordingFailed(AlreadyInProgress), recording_state, call[p].writes)
       ELSE /\ pc' = [pc EXCEPT ![p] = "start_platform"]
            /\ UNCHANGED <<call, result>>

\* start_recording beginning a session once the check has passed.
start_recording_platform_begins(p) ==
    /\ pc[p] = "start_platform"
    /\ recording_state' = Recording(0)
    /\ Return(p, OkUnit, Recording(0), call[p].writes \o <<Starting, Recording(0)>>)
    /\ UNCHANGED <<recording_guard, storage_vars, clock>>

\* recording.rs 34-38: no streaming capability is wired in; the call fails.
start_recording_platform(p) ==
    /\ pc[p] = "start_platform"
    /\ Return(p, RecordingFailed(StartNotIntegrated), recording_state, call[p].writes)
    /\ UNCHANGED <<recording_vars, storage_vars, clock>>

\* ----------------------------------------------------------- stop_recording
stop_recording_lock(p) == LockRecording(p, "stop_recording", "stop_check")

\* stop_recording rejecting Idle alone.
stop_recording_check_idle_only(p) ==
    /\ pc[p] = "stop_check"
    /\ recording_guard = p
    /\ recording_guard' = NoCaller
    /\ UNCHANGED <<storage_vars, clock>>
    /\ UNCHANGED recording_state
    /\ IF recording_state.state = "Idle"
       THEN Return(p, RecordingNotActive, recording_state, call[p].writes)
       ELSE /\ pc' = [pc EXCEPT ![p] = "stop_finalize"]
            /\ UNCHANGED <<call, result>>

\* recording.rs 45-49
stop_recording_check(p) ==
    /\ pc[p] = "stop_check"
    /\ recording_guard = p
    /\ recording_guard' = NoCaller
    /\ UNCHANGED <<storage_vars, clock>>
    /\ UNCHANGED recording_state
    /\ IF recording_state.state # "Recording"
       THEN Return(p, RecordingNotActive, recording_state, call[p].writes)
       ELSE /\ pc' = [pc EXCEPT ![p] = "stop_finalize"]
            /\ UNCHANGED <<call, result>>

\* recording.rs 51-54
stop_recording_finalize(p) ==
    /\ pc[p] = "stop_finalize"
    /\ Return(p, RecordingFailed(StopNotIntegrated), recording_state, call[p].writes)
    /\ UNCHANGED <<recording_vars, storage_vars, clock>>

\* --------------------------------------------------------- cancel_recording
cancel_recording_lock(p) == LockRecording(p, "cancel_recording", "cancel_body")

\* cancel_recording without its check: it cancels whatever the state is.
cancel_recording_body_unchecked(p) ==
    /\ pc[p] = "cancel_body"
    /\ recording_guard = p
    /\ recording_guard' = NoCaller
    /\ UNCHANGED <<storage_vars, clock>>
    /\ recording_state' = Cancelled
    /\ Return(p, OkUnit, Cancelled, Append(call[p].writes, Cancelled))

\* cancel_recording taking the stop path: through Stopping to Completed.
cancel_recording_body_as_stop(p) ==
    /\ pc[p] = "cancel_body"
    /\ recording_guard = p
    /\ recording_guard' = NoCaller
    /\ UNCHANGED <<storage_vars, clock>>
    /\ IF recording_state.state # "Recording"
       THEN /\ UNCHANGED recording_state
            /\ Return(p, RecordingNotActive, recording_state, call[p].writes)
       ELSE /\ recording_state' = Completed
            /\ Return(p, OkUnit, Completed, call[p].writes \o <<Stopping, Completed>>)

\* recording.rs 61-66: check and assignment under one guard, dropped on return.
cancel_recording_body(p) ==
    /\ pc[p] = "cancel_body"
    /\ recording_guard = p
    /\ recording_guard' = NoCaller
    /\ UNCHANGED <<storage_vars, clock>>
    /\ IF recording_state.state # "Recording"
       THEN /\ UNCHANGED recording_state
            /\ Return(p, RecordingNotActive, recording_state, call[p].writes)
       ELSE /\ recording_state' = Cancelled
            /\ Return(p, OkUnit, Cancelled, Append(call[p].writes, Cancelled))

\* ---------------------------------------------------------------- get_state
get_state_lock(p) == LockRecording(p, "get_state", "get_read")

\* get_state moving the value out (std::mem::take) instead of cloning it.
get_state_read_take(p) ==
    /\ pc[p] = "get_read"
    /\ recording_guard = p
    /\ recording_guard' = NoCaller
    /\ UNCHANGED <<storage_vars, clock>>
    /\ recording_state' = Idle
    /\ Return(p, recording_state, Idle, Append(call[p].writes, Idle))

\* recording.rs 71: clone the value under the guard; the temporary guard is
\* dropped at the end of the statement.
get_state_read(p) ==
    /\ pc[p] = "get_read"
    /\ recording_guard = p
    /\ recording_guard' = NoCaller
    /\ UNCHANGED <<storage_vars, clock>>
    /\ UNCHANGED recording_state
    /\ Return(p, recording_state, recording_state, call[p].writes)

\* --------------------------------------------------------- CaptureHistory
\* A new_screenshot that derives the id from the creation time instead of
\* drawing a fresh one.
new_screenshot_id_from_time(filename) ==
    [id |-> clock + 1, capture_type |-> "Screenshot", filename |-> filename,
     created_at |-> clock, is_favorite |-> FALSE]

\* manager.rs 24-32 CaptureItem::new_screenshot: Uuid::new_v4() is an id no
\* earlier item has, Utc::now() the time of the call
new_screenshot(filename) ==
    [id |-> next_uuid, capture_type |-> "Screenshot", filename |-> filename,
     created_at |-> clock, is_favorite |-> FALSE]

\* An add that puts the new item first.
add_first(items, item) == <<item>> \o items

\* manager.rs 55-57
add(items, item) == Append(items, item)

\* manager.rs 59-63: retain every item whose id differs
RECURSIVE retain(_, _)
retain(items, id) ==
    IF items = <<>> THEN <<>>
    ELSE IF Head(items).id # id
         THEN <<Head(items)>> \o retain(Tail(items), id)
         ELSE retain(Tail(items), id)

\* A remove whose length comparison is the wrong way round.
remove_compare_swapped(items, id) ==
    [items |-> retain(items, id), removed |-> Len(items) < Len(retain(items, id))]

remove(items, id) ==
    [items |-> retain(items, id), removed |-> Len(retain(items, id)) < Len(items)]

\* iter().find(|i| i.id == id): the index of the first match, 0 when none
find(items, id) ==
    IF \E i \in 1..Len(items) : items[i].id = id
    THEN CHOOSE i \in 1..Len(items) :
            /\ items[i].id = id
            /\ \A j \in 1..(i - 1) : items[j].id # id
    ELSE 0

\* A toggle_favorite that flips the first item when there is one, whatever
\* its id.
toggle_favorite_first(items, id) ==
    IF items # <<>>
    THEN [items |-> [items EXCEPT ![1].is_favorite = ~@], found |-> TRUE]
    ELSE [items |-> items, found |-> FALSE]

\* manager.rs 65-72
toggle_favorite(items, id) ==
    IF find(items, id) # 0
    THEN [items |-> [items EXCEPT ![find(items, id)].is_favorite = ~@], found |-> TRUE]
    ELSE [items |-> items, found |-> FALSE]

\* manager.rs 176-184: "{prefix} {local time to the second}.{extension}"
generate_filename(capture_type, extension) ==
    <<CASE capture_type = "Screenshot" -> "Screenshot"
        [] capture_type = "Recording" -> "Recording"
        [] capture_type = "Gif" -> "GIF",
      clock, extension>>

\* std::fs::write(path, data): creates or truncates the file, then writes.
\* "ok": the file holds data; "failed": nothing was touched; "partial": the
\* file was created or truncated and the write then failed.
FsOutcomes == {"ok", "failed", "partial"}
fs_write(dir, name, data, outcome) ==
    CASE outcome = "ok" ->
            [f \in DOMAIN dir \cup {name} |-> IF f = name THEN data ELSE dir[f]]
      [] outcome = "partial" ->
            [f \in DOMAIN dir \cup {name} |-> IF f = name THEN Partial ELSE dir[f]]
      [] outcome = "failed" -> dir

\* std::fs::remove_file
fs_remove(dir, name) == [f \in DOMAIN dir \ {name} |-> dir[f]]

\* manager.rs 118-124 save_history: the whole ledger is serialized and written
\* over history.json.  mkdir_ok is create_dir_all's outcome, outcome the write's.
Document(items) == [kind |-> "document", items |-> items]
Absent == [kind |-> "absent"]
Truncated == [kind |-> "truncated"]
save_history(items, mkdir_ok, outcome) ==
    IF ~mkdir_ok THEN [ok |-> FALSE, json |-> history_json]
    ELSE CASE outcome = "ok" -> [ok |-> TRUE, json |-> Document(items)]
           [] outcome = "partial" -> [ok |-> FALSE, json |-> Truncated]
           [] outcome = "failed" -> [ok |-> FALSE, json |-> history_json]

\* How many of save_history's two file-system operations fail: the write is
\* not attempted when create_dir_all has failed.
save_faults(mkdir_ok, outcome) ==
    IF ~mkdir_ok THEN 1 ELSE IF outcome = "ok" THEN 0 ELSE 1

\* n file-system operations fail in this step.
Fault(n) ==
    /\ faults + n <= MaxFaults
    /\ faults' = faults + n

\* A storage command begins: it waits for the storage guard and gets it.
LockStorage(p, next, frame) ==
    /\ pc[p] = "idle"
    /\ storage_guard = NoCaller
    /\ storage_guard' = p
    /\ pc' = [pc EXCEPT ![p] = next]
    /\ call' = [call EXCEPT ![p] = frame]
    /\ UNCHANGED result
    /\ UNCHANGED <<recording_vars, history, history_json, files, next_uuid, faults,
                   capture_vars, clock>>

\* A storage command returns ret and drops the guard.
ReturnStorage(p, ret) ==
    /\ storage_guard' = NoCaller
    /\ pc' = [pc EXCEPT ![p] = "idle"]
    /\ result' = [op |-> call[p].op, ret |-> ret]
    /\ call' = [call EXCEPT ![p] = NoCall]

\* ---------------------------------------------------------- capture commands
\* commands.rs 34-66 capture_fullscreen / capture_area / capture_window, first
\* line: the capture itself (screenshot.rs 34-114), outside every guard.  It
\* yields the encoded bytes or fails; on failure the `?` returns at once.  The
\* three commands then all return what save_screenshot returns.  The format
\* the command was called with and the bytes the capture produced are read
\* first inside save_screenshot, and are drawn there.  At most MaxCaptures
\* captures are taken: saving is the set of callers whose capture is under way.
saving == {q \in Callers : pc[q] \in {"save_lock", "save_body"}}

\* A capture that runs the macOS body whatever the build's target.
capture_any_target(p) ==
    /\ pc[p] = "idle"
    /\ \E op \in CaptureCommands :
        \/ /\ \E err \in {CaptureFailed(returned_null(op))} \cup EncodeErrors :
                result' = [op |-> op, ret |-> err]
           /\ pc' = [pc EXCEPT ![p] = "idle"]
           /\ UNCHANGED call
        \/ /\ next_uuid + Cardinality(saving) <= MaxCaptures
           /\ pc' = [pc EXCEPT ![p] = "save_lock"]
           /\ call' = [call EXCEPT ![p] = [op |-> "save_screenshot"]]
           /\ UNCHANGED result
    /\ UNCHANGED <<recording_vars, storage_vars, clock>>

capture(p) ==
    /\ pc[p] = "idle"
    /\ \E op \in CaptureCommands :
        \/ /\ \E err \in IF target_os = "macos"
                         THEN {CaptureFailed(returned_null(op))} \cup EncodeErrors
                         ELSE {CaptureFailed(NotSupported)} :
                result' = [op |-> op, ret |-> err]
           /\ pc' = [pc EXCEPT ![p] = "idle"]
           /\ UNCHANGED call
        \/ /\ target_os = "macos"
           /\ next_uuid + Cardinality(saving) <= MaxCaptures
           /\ pc' = [pc EXCEPT ![p] = "save_lock"]
           /\ call' = [call EXCEPT ![p] = [op |-> "save_screenshot"]]
           /\ UNCHANGED result
    /\ UNCHANGED <<recording_vars, storage_vars, clock>>

\* A save_screenshot under one combined lock: it takes the recording-state
\* guard together with the storage guard.
save_screenshot_lock_combined(p) ==
    /\ pc[p] = "save_lock"
    /\ storage_guard = NoCaller
    /\ recording_guard = NoCaller
    /\ storage_guard' = p
    /\ recording_guard' = p
    /\ pc' = [pc EXCEPT ![p] = "save_body"]
    /\ UNCHANGED <<recording_state, history, history_json, files, next_uuid, faults,
                   capture_vars, clock, call, result>>

\* commands.rs 20: let mut storage = state.storage.lock().unwrap();
save_screenshot_lock(p) ==
    /\ pc[p] = "save_lock"
    /\ storage_guard = NoCaller
    /\ storage_guard' = p
    /\ pc' = [pc EXCEPT ![p] = "save_body"]
    /\ UNCHANGED <<recording_vars, history, history_json, files, next_uuid, faults,
                   capture_vars, clock, call, result>>

\* A save_screenshot that drops the error of the artifact write (let _ =)
\* and goes on to add the item and save the history.
save_screenshot_write_unchecked(p) ==
    /\ pc[p] = "save_body"
    /\ storage_guard = p
    /\ \E format \in Formats, data \in Images, written \in FsOutcomes,
          data_dir_ok \in BOOLEAN, saved \in FsOutcomes :
       LET filename == generate_filename("Screenshot", format_extension(format))
           item == new_screenshot(filename)
       IN /\ files' = fs_write(files, filename, data, written)
          /\ Fault((IF written = "ok" THEN 0 ELSE 1) + save_faults(data_dir_ok, saved))
          /\ next_uuid' = next_uuid + 1
          /\ history' = add(history, item)
          /\ history_json' = save_history(add(history, item), data_dir_ok, saved).json
          /\ ReturnStorage(p,
                IF save_history(add(history, item), data_dir_ok, saved).ok
                THEN OkItem(item) ELSE IoError)
    /\ UNCHANGED <<recording_vars, capture_vars, clock>>

\* commands.rs 21-31, under the guard taken at line 20
save_screenshot(p) ==
    /\ pc[p] = "save_body"
    /\ storage_guard = p
    /\ \E format \in Formats, data \in Images, mkdir_ok \in BOOLEAN,
          written \in FsOutcomes, data_dir_ok \in BOOLEAN, saved \in FsOutcomes :
       LET filename == generate_filename("Screenshot", format_extension(format))
           item == new_screenshot(filename)
       IN IF ~mkdir_ok
          THEN /\ Fault(1)
               /\ UNCHANGED <<history, history_json, files, next_uuid>>
               /\ ReturnStorage(p, IoError)
          ELSE /\ files' = fs_write(files, filename, data, written)
               /\ IF written # "ok"
                  THEN /\ Fault(1)
                       /\ UNCHANGED <<history, history_json, next_uuid>>
                       /\ ReturnStorage(p, IoError)
                  ELSE /\ Fault(save_faults(data_dir_ok, saved))
                       /\ next_uuid' = next_uuid + 1
                       /\ history' = add(history, item)
                       /\ history_json' =
                             save_history(add(history, item), data_dir_ok, saved).json
                       /\ ReturnStorage(p,
                             IF save_history(add(history, item), data_dir_ok, saved).ok
                             THEN OkItem(item) ELSE IoError)
    /\ UNCHANGED <<recording_vars, capture_vars, clock>>

\* ----------------------------------------------------------- delete_capture
\* storage/commands.rs 12: the guard is taken; the id the command was called
\* with is read first under the guard, and is drawn there.
delete_capture_lock(p) ==
    LockStorage(p, "delete_body", [op |-> "delete_capture"])

\* storage/commands.rs 12-26; remove_file's error is dropped (let _ =)
delete_capture(p) ==
    /\ pc[p] = "delete_body"
    /\ storage_guard = p
    /\ \E id \in 1..MaxCaptures, unlinked \in BOOLEAN, data_dir_ok \in BOOLEAN,
          saved \in FsOutcomes :
       LET found == find(history, id)
           r == remove(history, id)
       IN
          /\ found = 0 => unlinked
          /\ files' = IF found # 0 /\ unlinked
                      THEN fs_remove(files, history[found].filename)
                      ELSE files
          /\ history' = r.items
          /\ IF r.removed
             THEN /\ Fault((IF unlinked THEN 0 ELSE 1) + save_faults(data_dir_ok, saved))
                  /\ history_json' = save_history(r.items, data_dir_ok, saved).json
                  /\ ReturnStorage(p,
                        IF save_history(r.items, data_dir_ok, saved).ok
                        THEN OkBool(TRUE) ELSE IoError)
             ELSE /\ Fault(0)
                  /\ UNCHANGED history_json
                  /\ ReturnStorage(p, OkBool(FALSE))
    /\ UNCHANGED <<recording_vars, next_uuid, capture_vars, clock>>

\* ---------------------------------------------------------- toggle_favorite
\* storage/commands.rs 31: the guard is taken
toggle_favorite_lock(p) ==
    LockStorage(p, "toggle_body", [op |-> "toggle_favorite"])

\* A toggle_favorite command that serializes the history before it flips
\* the flag, so that the document written is the history of before.
toggle_favorite_command_saves_first(p) ==
    /\ pc[p] = "toggle_body"
    /\ storage_guard = p
    /\ \E data_dir_ok \in BOOLEAN, saved \in FsOutcomes, id \in 1..MaxCaptures :
          /\ Fault(save_faults(data_dir_ok, saved))
          /\ history_json' = save_history(history, data_dir_ok, saved).json
          /\ history' = toggle_favorite(history, id).items
          /\ ReturnStorage(p,
                IF save_history(history, data_dir_ok, saved).ok
                THEN OkUnit ELSE IoError)
    /\ UNCHANGED <<recording_vars, files, next_uuid, capture_vars, clock>>

\* storage/commands.rs 31-34: the flag's lookup result is dropped and the
\* ledger is saved whether or not the id was found
toggle_favorite_command(p) ==
    /\ pc[p] = "toggle_body"
    /\ storage_guard = p
    /\ \E data_dir_ok \in BOOLEAN, saved \in FsOutcomes, id \in 1..MaxCaptures :
          /\ Fault(save_faults(data_dir_ok, saved))
          /\ history' = toggle_favorite(history, id).items
          /\ history_json' = save_history(history', data_dir_ok, saved).json
          /\ ReturnStorage(p,
                IF save_history(history', data_dir_ok, saved).ok
                THEN OkUnit ELSE IoError)
    /\ UNCHANGED <<recording_vars, files, next_uuid, capture_vars, clock>>

\* ------------------------------------------------------ encode_cgimage_raw
\* screenshot.rs 123-127: what the CGImage getters return, and 134-148 the
\* data provider and the copy of its bytes.  provider is "data" when both
\* calls succeed, "null" when CGImageGetDataProvider returns null, "no_copy"
\* when CGDataProviderCopyData does.  Rows do not overlap: bytes_per_row is
\* the bytes of width pixels plus padding.  The code never branches on a
\* byte's value, so byte i of the view holds i.
Bytes(n) == [i \in 1..n |-> i]
BitsPerPixel == {24, 32}
\* none / premultiplied-last in default order, 32-bit little-endian with
\* premultiplied-first (0x2002) and with none-skip-first (0x2006)
BitmapInfos == {0, 1, 8194, 8198}
Providers == {"data", "null", "no_copy"}
CGImages ==
    {[width |-> w, height |-> h, bytes_per_row |-> w * (b \div 8) + pad,
      bits_per_pixel |-> b, bitmap_info |-> info, provider |-> pr,
      pixel_data |-> IF pr = "data" THEN Bytes(n) ELSE <<>>] :
        w \in 0..MaxWidth, h \in 0..MaxHeight, pad \in 0..MaxPadding,
        b \in BitsPerPixel, info \in BitmapInfos, pr \in Providers, n \in 0..MaxBytes}
NoImage == [provider |-> "none"]
NoEncoded == [tag |-> "none"]

\* screenshot.rs 151-153: bitmap_info & 0x7000, bitmap_info & 0x1F
byte_order(img) == ((img.bitmap_info \div 4096) % 8) * 4096
alpha_info(img) == img.bitmap_info % 32
\* An is_bgra that looks at the byte order only.
is_bgra_byte_order_only(img) == byte_order(img) = 8192

is_bgra(img) ==
    byte_order(img) = 8192 \/ (img.bits_per_pixel = 32 /\ alpha_info(img) # 0)

\* screenshot.rs 156, 158, 160
bytes_per_pixel(img) == img.bits_per_pixel \div 8
px_offset(img, x, y) == y * img.bytes_per_row + x * bytes_per_pixel(img)

\* screenshot.rs 161-173: the bytes one pixel pushes onto rgba, none when
\* px_offset + 3 is not below the length of the view.  pixel_data[k] of the
\* code is pixel_data[k + 1] here.
pushed(img, x, y) ==
    LET o == px_offset(img, x, y)
        src == img.pixel_data
    IN IF o + 3 < Len(src)
       THEN IF is_bgra(img)
            THEN <<src[o + 3], src[o + 2], src[o + 1], src[o + 4]>>
            ELSE <<src[o + 1], src[o + 2], src[o + 3], src[o + 4]>>
       ELSE <<>>

\* screenshot.rs 155-175: rgba after the two loops, pixel k = y * width + x on
RECURSIVE push_pixels(_, _)
push_pixels(img, k) ==
    IF k >= img.width * img.height THEN <<>>
    ELSE pushed(img, k % img.width, k \div img.width) \o push_pixels(img, k + 1)

\* image::RgbaImage::from_raw: None when the buffer is too short for
\* width x height pixels of four bytes
from_raw(width, height, raw) ==
    IF width * height * 4 <= Len(raw)
    THEN [some |-> TRUE, image |-> [width |-> width, height |-> height, rgba |-> raw]]
    ELSE [some |-> FALSE]

\* screenshot.rs 123-178: from the CGImage to the RgbaImage
normalize(img) ==
    IF img.width = 0 \/ img.height = 0 THEN CaptureFailed("Empty image")
    ELSE IF img.provider = "null" THEN CaptureFailed("No data provider")
    ELSE IF img.provider = "no_copy" THEN CaptureFailed("Failed to copy data")
    ELSE LET img_opt == from_raw(img.width, img.height, push_pixels(img, 0))
         IN IF img_opt.some
            THEN [tag |-> "Ok", image |-> img_opt.image]
            ELSE CaptureFailed("Pixel buffer size mismatch")

\* The two platform objects of a capture.  image is the CGImage the create
\* call returned (screenshot.rs 42, 70, 100-102), data the CFData that
\* CGDataProviderCopyData returned (138) and cf_data_obj owns (146): "none"
\* before it is obtained, then "held", then "released".  The counters count
\* the releases; returned is set when the capture function has returned.
NoHandles ==
    [image |-> "none", image_releases |-> 0, data |-> "none", data_releases |-> 0,
     returned |-> FALSE]

\* core_foundation::base::CFRelease(cg_image_ref)
CFRelease(h) == [h EXCEPT !.image = "released", !.image_releases = @ + 1]
\* CFData::wrap_under_create_rule takes the copy over ...
wrap_under_create_rule(h) == [h EXCEPT !.data = "held"]
\* ... and cf_data_obj's Drop releases it when the function is left
drop_cf_data_obj(h) == [h EXCEPT !.data = "released", !.data_releases = @ + 1]

\* screenshot.rs 117-178: encode_cgimage_raw is applied to the bitmap.  The
\* returns at 129-141 come before there is a CFData; the `?` at 178 leaves
\* the function and drops cf_data_obj; otherwise the function goes on to the
\* encoding with cf_data_obj alive.
encode_cgimage_raw ==
    /\ encoded = NoEncoded
    /\ cg_image # NoImage
    /\ encoded' = normalize(cg_image)
    /\ handles' =
          IF cg_image.width = 0 \/ cg_image.height = 0 \/ cg_image.provider # "data"
          THEN handles
          ELSE IF normalize(cg_image).tag = "Err"
               THEN drop_cf_data_obj(wrap_under_create_rule(handles))
               ELSE wrap_under_create_rule(handles)
    /\ UNCHANGED <<recording_vars, history, storage_guard, history_json, files, next_uuid,
                   faults, target_os, cg_image, buf, clock, pc, call, result>>

\* config.rs 31-35: the format argument.  Jpeg's quality is an f32; it is
\* held in thousandths, so that quality x 100 has a fraction to truncate.
Qualities == {-500, -4, 0, 5, 295, 999, 1000, 1004, 1500, 2559, 2560, 3000}
EncodeFormats ==
    {[kind |-> "Png"], [kind |-> "Tiff"]} \cup {[kind |-> "Jpeg", quality |-> t] : t \in Qualities}

\* Rust's float-to-u8 `as`: the fraction is dropped and the value saturates
\* at 0 and 255.
truncate(thousandths, per) ==
    IF thousandths < 0 THEN 0 - ((0 - thousandths) \div per) ELSE thousandths \div per
as_u8(v) == IF v < 0 THEN 0 ELSE IF v > 255 THEN 255 ELSE v

\* screenshot.rs 188: let q = (*quality * 100.0) as u8;
jpeg_quality(quality) == as_u8(truncate(quality, 10))

\* screenshot.rs 183, 189, 193: the encoder the image is handed to
encoder(format) ==
    IF format.kind = "Jpeg"
    THEN [codec |-> "Jpeg", quality |-> jpeg_quality(format.quality)]
    ELSE [codec |-> format.kind]
NoBuf == [ret |-> "none"]

\* screenshot.rs 180-196: the image is written with the encoder of the
\* format; an encoder error is returned by `?` as CaptureError::Image.
write_with_encoder ==
    /\ encoded.tag = "Ok"
    /\ buf = NoBuf
    /\ \E format \in EncodeFormats, ret \in {"Ok", "Err"} :
        buf' = [format |-> format, encoder |-> encoder(format),
                ret |-> IF ret = "Ok" THEN [tag |-> "Ok"] ELSE ImageError]
    /\ handles' = drop_cf_data_obj(handles)
    /\ UNCHANGED <<recording_vars, history, storage_guard, history_json, files, next_uuid,
                   faults, target_os, cg_image, encoded, clock, pc, call, result>>

\* What encode_cgimage_raw has returned, once it has.
encode_returned == encoded.tag = "Err" \/ buf # NoBuf
encode_result == IF encoded.tag = "Err" THEN encoded ELSE buf.ret

\* A capture function that hands encode_cgimage_raw's error on with `?`
\* and releases the image after that.
capture_return_early ==
    /\ encode_returned
    /\ ~handles.returned
    /\ handles' = IF encode_result.tag = "Err"
                  THEN [handles EXCEPT !.returned = TRUE]
                  ELSE [CFRelease(handles) EXCEPT !.returned = TRUE]
    /\ UNCHANGED <<recording_vars, history, storage_guard, history_json, files, next_uuid,
                   faults, target_os, cg_image, encoded, buf, clock, pc, call, result>>

\* screenshot.rs 46-48, 74-76, 106-108: result is kept, the image is
\* released, result is returned
capture_return ==
    /\ encode_returned
    /\ ~handles.returned
    /\ handles' = [CFRelease(handles) EXCEPT !.returned = TRUE]
    /\ UNCHANGED <<recording_vars, history, storage_guard, history_json, files, next_uuid,
                   faults, target_os, cg_image, encoded, buf, clock, pc, call, result>>

\* ----------------------------------------- CaptureHistory, called directly
\* manager.rs 55-72: the three methods of CaptureHistory applied to the
\* history one after another, as a caller of the public type does.  result
\* records the call, its argument, the history it was applied to, what it
\* returned, and in prev the call before it.
Earlier(r) == IF r = NoResult THEN NoResult ELSE [op |-> r.op, arg |-> r.arg, pre |-> r.pre]

\* manager.rs 55-57 with an item made by new_screenshot (manager.rs 24-32)
CaptureHistory_add ==
    /\ next_uuid <= MaxCaptures
    /\ \E format \in Formats :
        LET item == new_screenshot(generate_filename("Screenshot", format_extension(format)))
        IN /\ history' = add(history, item)
           /\ result' = [op |-> "add", arg |-> item, pre |-> history, ret |-> OkUnit,
                         prev |-> Earlier(result)]
    /\ next_uuid' = next_uuid + 1
    /\ UNCHANGED <<recording_vars, storage_guard, history_json, files, faults, capture_vars,
                   clock, pc, call>>

\* manager.rs 59-63
CaptureHistory_remove ==
    /\ \E id \in 1..MaxCaptures :
        /\ history' = remove(history, id).items
        /\ result' = [op |-> "remove", arg |-> id, pre |-> history,
                      ret |-> remove(history, id).removed, prev |-> Earlier(result)]
    /\ UNCHANGED <<recording_vars, storage_guard, history_json, files, next_uuid, faults,
                   capture_vars, clock, pc, call>>

\* manager.rs 65-72
CaptureHistory_toggle_favorite ==
    /\ \E id \in 1..MaxCaptures :
        /\ history' = toggle_favorite(history, id).items
        /\ result' = [op |-> "toggle_favorite", arg |-> id, pre |-> history,
                      ret |-> toggle_favorite(history, id).found, prev |-> Earlier(result)]
    /\ UNCHANGED <<recording_vars, storage_guard, history_json, files, next_uuid, faults,
                   capture_vars, clock, pc, call>>

\* --------------------------------------------------------------- the clock
Tick ==
    /\ clock < MaxClock
    /\ clock' = clock + 1
    /\ UNCHANGED <<recording_vars, storage_vars, pc, call, result>>

\* ------------------------------------------------------------ specification
\* StorageManager::load (manager.rs 102-116): the ledger is what history.json
\* holds, the empty one when there is no such file.
load(items) ==
    /\ history = items
    /\ history_json = IF items = <<>> THEN Absent ELSE Document(items)
    /\ files = [i \in {items[k].filename : k \in 1..Len(items)} |-> "imageA"]
    /\ next_uuid = Len(items) + 1

\* manager.rs 104-107: the history a later run reads back from history.json,
\* the empty one when the file is missing or does not parse.
read_history(json) == IF json.kind = "document" THEN json.items ELSE <<>>

\* A ledger an earlier run left behind: one screenshot.
EarlierLedger ==
    <<[id |-> 1, capture_type |-> "Screenshot",
       filename |-> <<"Screenshot", 0, "png">>, created_at |-> 0,
       is_favorite |-> FALSE]>>

InitCommon ==
    /\ target_os \in TargetOs
    /\ recording_guard = NoCaller
    /\ storage_guard = NoCaller
    /\ clock = 0
    /\ faults = 0
    /\ pc = [p \in Callers |-> "idle"]
    /\ call = [p \in Callers |-> NoCall]
    /\ result = NoResult

\* No bitmap is being encoded.
NoEncode ==
    /\ cg_image = NoImage
    /\ encoded = NoEncoded
    /\ buf = NoBuf
    /\ handles = NoHandles

\* AppState::new
Init ==
    /\ recording_state = Idle
    /\ load(<<>>)
    /\ InitCommon
    /\ NoEncode

\* The recording commands as functions of the state they are handed.
\* AppState's fields are public and every value of the enum is a value the
\* Mutex may hold when a command runs, so the state is drawn from the enum.
InitSession ==
    /\ recording_state \in RecordingSessionState
    /\ \E items \in {<<>>, EarlierLedger} : load(items)
    /\ InitCommon
    /\ NoEncode

\* The commands on recording_state (recording.rs, commands.rs 80-108).
RecordingNext ==
    \E p \in Callers :
        \/ start_recording_lock(p)
        \/ start_recording_check(p)
        \/ start_recording_platform(p)
        \/ stop_recording_lock(p)
        \/ stop_recording_check(p)
        \/ stop_recording_finalize(p)
        \/ cancel_recording_lock(p)
        \/ cancel_recording_body(p)
        \/ get_state_lock(p)
        \/ get_state_read(p)

\* The commands on storage (commands.rs 15-66, storage/commands.rs).
StorageNext ==
    \E p \in Callers :
        \/ capture(p)
        \/ save_screenshot_lock(p)
        \/ save_screenshot(p)
        \/ delete_capture_lock(p)
        \/ delete_capture(p)
        \/ toggle_favorite_lock(p)
        \/ toggle_favorite_command(p)

Next == RecordingNext \/ StorageNext \/ Tick

\* The whole command surface from AppState::new.
Spec == Init /\ [][Next]_vars

\* The two guarded resources share no state: each is also checked on its own.
\* The recording commands from any value of the session state.
SpecSession == InitSession /\ [][RecordingNext]_vars

\* The storage commands from AppState::new.
SpecStorage == Init /\ [][StorageNext \/ Tick]_vars

\* Both resources together (lib.rs 28-47: every command is registered on the
\* one AppState), on the macOS build, from a session that is recording and a
\* ledger an earlier run left behind, so that every command of both resources
\* has something to act on.
InitGuards ==
    /\ recording_state = Recording(0)
    /\ load(EarlierLedger)
    /\ InitCommon
    /\ NoEncode
    /\ target_os = "macos"
SpecGuards == InitGuards /\ [][RecordingNext \/ StorageNext]_vars

\* A capture function of screenshot.rs from the point where the platform
\* has returned an image (macOS build only): every bitmap of CGImages, held
\* by the caller, then encode_cgimage_raw, then the release and the return.
InitPixels ==
    /\ cg_image \in CGImages
    /\ handles = [NoHandles EXCEPT !.image = "held"]
    /\ encoded = NoEncoded
    /\ buf = NoBuf
    /\ recording_state = Idle
    /\ load(<<>>)
    /\ InitCommon
    /\ target_os = "macos"
SpecPixels ==
    InitPixels /\ [][encode_cgimage_raw \/ write_with_encoder \/ capture_return]_vars

\* CaptureHistory on its own: its methods in any order, from the empty history.
LedgerNext == CaptureHistory_add \/ CaptureHistory_remove \/ CaptureHistory_toggle_favorite
SpecLedger == Init /\ [][LedgerNext \/ Tick]_vars

\* ------------------------------------------------------------------ claims
StartReturned == result.op = "start_recording"
StopReturned == result.op = "stop_recording"
CancelReturned == result.op = "cancel_recording"

\* C1: start_recording called while the state is Starting or Recording{..}
\* returns RecordingFailed("Recording already in progress"), writes nothing to
\* the state and leaves it as the call found it.
C1_StartRejectedWhileActive ==
    (StartReturned /\ result.pre.state \in {"Starting", "Recording"}) =>
        /\ result.ret = RecordingFailed(AlreadyInProgress)
        /\ result.writes = <<>>
        /\ result.post = result.pre

C1_Witness ==
    /\ StartReturned
    /\ result.pre = Recording(1)
    /\ result.ret = RecordingFailed(AlreadyInProgress)

\* C2: of two concurrent start_recording calls at most one is past the
\* already-in-progress check, on its way to the streaming step, at a time.
C2_OneStartPastCheck ==
    \A p, q \in Callers :
        (pc[p] = "start_platform" /\ pc[q] = "start_platform") => p = q

\* C3: a start_recording call that found the state neither Starting nor
\* Recording{..} has written Starting to it first, and when it returns
\* success the state is Recording{elapsed_seconds: 0}.
C3_StartMovesToStarting ==
    (StartReturned /\ result.pre.state \notin {"Starting", "Recording"}) =>
        /\ Len(result.writes) >= 1
        /\ result.writes[1] = Starting
        /\ result.ret = OkUnit => result.post = Recording(0)

\* C4: stop_recording called in a state other than Recording{..} returns
\* RecordingNotActive, writes nothing to the state and leaves it as found.
C4_StopRejectedUnlessRecording ==
    (StopReturned /\ result.pre.state # "Recording") =>
        /\ result.ret = RecordingNotActive
        /\ result.writes = <<>>
        /\ result.post = result.pre

C4_Witness ==
    /\ StopReturned
    /\ result.pre = Starting
    /\ result.ret = RecordingNotActive

C7_CancelRejectedUnlessRecording ==
    (CancelReturned /\ result.pre.state # "Recording") =>
        /\ result.ret = RecordingNotActive
        /\ result.writes = <<>>
        /\ result.post = result.pre

C7_Witness ==
    /\ CancelReturned
    /\ result.pre = Idle
    /\ result.ret = RecordingNotActive

\* C8: cancel_recording called while the state is Recording{..} returns
\* success, its one write to the state is Cancelled (never Stopping or
\* Completed), and it holds the guard for as long as it runs.
C8_CancelGoesStraightToCancelled ==
    /\ (CancelReturned /\ result.pre.state = "Recording") =>
            /\ result.ret = OkUnit
            /\ result.writes = <<Cancelled>>
            /\ result.post = Cancelled
    /\ \A p \in Callers : pc[p] = "cancel_body" => recording_guard = p

C8_Witness ==
    /\ CancelReturned
    /\ result.pre = Recording(0)
    /\ result.ret = OkUnit
    /\ recording_state = Cancelled

\* C9: a start_recording call that found the state Completed, Failed or
\* Cancelled begins no session: it returns an error, writes nothing to the
\* state and the state is still the terminal one it found.
C9_NoStartFromTerminal ==
    (StartReturned /\ result.pre.state \in TerminalStates) =>
        /\ result.ret.tag = "Err"
        /\ result.writes = <<>>
        /\ result.post = result.pre
        /\ recording_state = result.pre

C9_Witness ==
    /\ StartReturned
    /\ result.pre = Completed
    /\ result.ret = RecordingFailed(StartNotIntegrated)

\* C10: every step of get_state leaves the recording state and the storage
\* state as they are, and the step that returns hands back a session state
\* (never an error) equal to the recording state under the guard it holds.
C10_GetStateIsPureRead ==
    [][\A p \in Callers :
        (pc'[p] # pc[p] /\ (pc[p] = "get_read" \/ pc'[p] = "get_read")) =>
            /\ recording_state' = recording_state
            /\ UNCHANGED <<history, history_json, files, next_uuid, faults>>
            /\ storage_guard' = storage_guard
            /\ pc[p] = "get_read" =>
                /\ recording_guard = p
                /\ result'.op = "get_state"
                /\ result'.ret = recording_state
                /\ result'.ret \in RecordingSessionState]_vars

C10_Witness ==
    /\ result.op = "get_state"
    /\ result.ret = Recording(1)
    /\ recording_state = Recording(1)
    /\ history # <<>>

\* ------------------------------------------------------------------ ledger
ids(items) == {items[i].id : i \in 1..Len(items)}
filenames(items) == {items[i].filename : i \in 1..Len(items)}
NoDuplicateIds(items) ==
    \A i, j \in 1..Len(items) : items[i].id = items[j].id => i = j

\* C11: whatever capture, delete_capture and toggle_favorite commands have
\* run, and so whatever add, remove and toggle_favorite calls they made, no
\* two items of the capture history have the same id.
C11_NoDuplicateIds == NoDuplicateIds(history)

C11_Witness ==
    /\ Len(history) = 2
    /\ history[1].id # history[2].id
    /\ history[1].is_favorite
    /\ result.op = "toggle_favorite"
    /\ result.ret = OkUnit

\* C12: when add(item) is followed by remove(item.id), the remove returns
\* true and the history is as long as it was before the add.
C12_AddThenRemove ==
    (/\ result.op = "remove"
     /\ result.prev.op = "add"
     /\ result.prev.arg.id = result.arg) =>
        /\ result.ret = TRUE
        /\ Len(history) = Len(result.prev.pre)

C12_Witness ==
    /\ result.op = "remove"
    /\ result.prev.op = "add"
    /\ result.prev.arg.id = result.arg
    /\ result.ret = TRUE
    /\ Len(result.prev.pre) = 1
    /\ Len(history) = 1

\* C13: toggle_favorite called with an id that no item of the history has
\* returns false and leaves the history as it was: the same items with the
\* same favorite flags in the same order.
C13_ToggleAbsentId ==
    (result.op = "toggle_favorite" /\ result.arg \notin ids(result.pre)) =>
        /\ result.ret = FALSE
        /\ history = result.pre

C13_Witness ==
    /\ result.op = "toggle_favorite"
    /\ result.arg \notin ids(result.pre)
    /\ result.pre # <<>>
    /\ result.ret = FALSE
    /\ history = result.pre

\* C14: no two items of the history have the same filename, so no capture
\* has written over the artifact file of an earlier one, whatever the second
\* in which the captures were taken.
C14_UniqueFilenames ==
    \A i, j \in 1..Len(history) : history[i].filename = history[j].filename => i = j

\* C15: the step in which a capture command returns a CaptureItem leaves the
\* item persisted: its artifact file holds the captured bytes, the history is
\* the one before the step with the item appended as its last element, and
\* history.json holds that history, the item included.
C15_ReturnedItemIsPersisted ==
    [][\A p \in Callers :
        (pc[p] = "save_body" /\ pc'[p] = "idle" /\ result'.ret.tag = "Ok") =>
            LET item == result'.ret.item
            IN /\ item.filename \in DOMAIN files'
               /\ files'[item.filename] \in Images
               /\ history' = Append(history, item)
               /\ history_json' = Document(history')
               /\ item \in {history_json'.items[i] : i \in 1..Len(history_json'.items)}]_vars

C15_Witness ==
    /\ result.op = "save_screenshot"
    /\ result.ret.tag = "Ok"
    /\ Len(history) = 2
    /\ history[2] = result.ret.item
    /\ history_json = Document(history)
    /\ files[result.ret.item.filename] \in Images

\* C16: under every interleaving of capture, delete_capture and
\* toggle_favorite commands, the history and history.json change only in the
\* step of the command that holds the storage guard, which then drops it; a
\* command that returns success leaves history.json holding the whole
\* in-memory history, other callers' changes included; a capture adds exactly
\* the item it returns, a delete removes exactly the items of one id, a
\* toggle keeps every item in place; and when every command has returned and
\* no file-system call has failed, history.json reads back as the history.
ItemIds(items) == [i \in 1..Len(items) |-> items[i].id]
RemovedNothing(r) == r.op = "delete_capture" /\ r.ret.tag = "Ok" /\ ~r.ret.val
C16_Settled ==
    ((\A p \in Callers : pc[p] = "idle") /\ faults = 0) =>
        read_history(history_json) = history
C16_Step ==
    /\ (history' # history \/ history_json' # history_json) =>
            /\ storage_guard \in Callers
            /\ pc[storage_guard] \in {"save_body", "delete_body", "toggle_body"}
            /\ pc'[storage_guard] = "idle"
            /\ storage_guard' = NoCaller
    /\ \A p \in Callers :
        (storage_guard = p /\ storage_guard' = NoCaller) =>
            /\ (result'.ret.tag = "Ok" /\ ~RemovedNothing(result')) =>
                    history_json' = Document(history')
            /\ RemovedNothing(result') =>
                    (history' = history /\ history_json' = history_json)
            /\ pc[p] = "save_body" =>
                    \/ history' = history
                    \/ /\ Len(history') = Len(history) + 1
                       /\ SubSeq(history', 1, Len(history)) = history
                       /\ history'[Len(history')].id \notin ids(history)
            /\ pc[p] = "delete_body" =>
                    \E id \in 1..MaxCaptures : history' = retain(history, id)
            /\ pc[p] = "toggle_body" => ItemIds(history') = ItemIds(history)
C16_NoLostUpdate == []C16_Settled /\ [][C16_Step]_vars

C16_Witness ==
    /\ \A p \in Callers : pc[p] = "idle"
    /\ faults = 0
    /\ next_uuid = 3
    /\ Len(history) = 1
    /\ history[1].is_favorite
    /\ history_json = Document(history)
    /\ result.op = "delete_capture"

\* C17: no caller ever holds the storage guard and the recording-state guard
\* together; a caller inside a command, past the point where it took its
\* guard, can always take its next step, whoever holds the other guard, so
\* every guard that is held is dropped again and no interleaving deadlocks;
\* a capture waiting for the storage guard gets it when it is free; and any
\* of the four recording commands can begin whenever the recording-state
\* guard is free, whether or not the storage guard is held.
CallerStep(p) ==
    \/ start_recording_check(p) \/ start_recording_platform(p)
    \/ stop_recording_check(p) \/ stop_recording_finalize(p)
    \/ cancel_recording_body(p) \/ get_state_read(p)
    \/ save_screenshot(p) \/ delete_capture(p) \/ toggle_favorite_command(p)
C17_GuardsIndependent ==
    \A p \in Callers :
        /\ ~(storage_guard = p /\ recording_guard = p)
        /\ pc[p] \notin {"idle", "save_lock"} => ENABLED CallerStep(p)
        /\ (pc[p] = "save_lock" /\ storage_guard = NoCaller) =>
                ENABLED save_screenshot_lock(p)
        /\ (pc[p] = "idle" /\ recording_guard = NoCaller) =>
                /\ ENABLED start_recording_lock(p)
                /\ ENABLED stop_recording_lock(p)
                /\ ENABLED cancel_recording_lock(p)
                /\ ENABLED get_state_lock(p)

C17_Witness ==
    /\ storage_guard = 1
    /\ pc[1] = "save_body"
    /\ recording_guard = 2
    /\ pc[2] = "stop_check"
    /\ result.op = "get_state"
    /\ result.caller = 2

\* C18: on a build for a target other than macOS, a capture_fullscreen,
\* capture_area or capture_window call returns CaptureFailed("Not supported on
\* this platform") in its first step, no caller ever gets as far as
\* save_screenshot, no artifact file exists and the history stays empty as
\* it was loaded.
C18_UnsupportedPlatform ==
    target_os = "other" =>
        /\ \A p \in Callers : pc[p] \notin {"save_lock", "save_body"}
        /\ result.op \in CaptureCommands \cup {"save_screenshot"} =>
                result.ret = CaptureFailed(NotSupported)
        /\ DOMAIN files = {}
        /\ history = <<>>

C18_Witness ==
    /\ target_os = "other"
    /\ result = [op |-> "capture_window", ret |-> CaptureFailed(NotSupported)]
    /\ history_json = Document(<<>>)

\* ------------------------------------------------------- pixel normalizer
Normalized == encoded # NoEncoded /\ cg_image.provider = "data"
Skipped(img) ==
    {xy \in (0..(img.width - 1)) \X (0..(img.height - 1)) :
        px_offset(img, xy[1], xy[2]) + 3 >= Len(img.pixel_data)}

\* C19: applied to a bitmap whose bytes could be copied, the normalizer
\* fails with CaptureFailed exactly when the width is zero, the height is
\* zero or the byte view is shorter than bytes_per_row x height, and returns
\* an image in every other case.
C19_FailsIffEmptyOrShort ==
    Normalized =>
        IF \/ cg_image.width = 0
           \/ cg_image.height = 0
           \/ Len(cg_image.pixel_data) < cg_image.bytes_per_row * cg_image.height
        THEN encoded.tag = "Err" /\ encoded.kind = "CaptureFailed"
        ELSE encoded.tag = "Ok"

\* C20: when some pixel's four source bytes do not all lie inside the byte
\* view, the normalizer still returns an image, its buffer is exactly
\* width x height x 4 bytes long, and each such pixel is four zero bytes at
\* its own position.
C20_SkippedPixelIsZero ==
    (Normalized /\ Skipped(cg_image) # {}) =>
        /\ encoded.tag = "Ok"
        /\ Len(encoded.image.rgba) = cg_image.width * cg_image.height * 4
        /\ \A xy \in Skipped(cg_image) : \A c \in 1..4 :
                encoded.image.rgba[(xy[2] * cg_image.width + xy[1]) * 4 + c] = 0

\* C21: when the normalizer returns an image, pixel (x, y) of it is made of
\* the four source bytes at offset y x bytes_per_row + x x bytes_per_pixel:
\* in the order 2, 1, 0, 3 when the bitmap's byte order is 32-bit
\* little-endian or it has 32 bits per pixel and a non-zero alpha flag, in
\* the order 0, 1, 2, 3 for every other bitmap, whatever the row padding.
ClassifiedBGRA(img) ==
    \/ (img.bitmap_info \div 4096) % 8 = 2
    \/ img.bits_per_pixel = 32 /\ img.bitmap_info % 32 # 0
C21_ChannelOrder ==
    (Normalized /\ encoded.tag = "Ok") =>
        \A x \in 0..(cg_image.width - 1), y \in 0..(cg_image.height - 1) :
            LET o == y * cg_image.bytes_per_row + x * (cg_image.bits_per_pixel \div 8)
                src == SubSeq(cg_image.pixel_data, o + 1, o + 4)
                k == y * cg_image.width + x
                out == SubSeq(encoded.image.rgba, 4 * k + 1, 4 * k + 4)
            IN /\ Len(src) = 4
               /\ out = IF ClassifiedBGRA(cg_image)
                        THEN <<src[3], src[2], src[1], src[4]>>
                        ELSE src

C21_Witness ==
    /\ cg_image.provider = "data"
    /\ cg_image.width = 1
    /\ cg_image.height = 2
    /\ cg_image.bytes_per_row = 8
    /\ cg_image.bitmap_info = 1
    /\ encoded.tag = "Ok"
    /\ encoded.image.rgba = <<3, 2, 1, 4, 11, 10, 9, 12>>

\* C22: whatever quality a Jpeg format carries, below 0 and above 1
\* included, the integer handed to the JPEG encoder is the quality clamped to
\* [0, 1], times 100, truncated, and lies in 0..100.
C22_JpegQualityClamped ==
    (buf # NoBuf /\ buf.format.kind = "Jpeg") =>
        LET quality == buf.format.quality
            clamped == IF quality < 0 THEN 0 ELSE IF quality > 1000 THEN 1000 ELSE quality
        IN /\ buf.encoder.quality = clamped \div 10
           /\ buf.encoder.quality \in 0..100

\* C23: the image a capture obtained is released at most once, only after
\* encode_cgimage_raw has returned, and exactly once by the time the capture
\* function has returned, whether with the encoded bytes, with a
\* normalization error or with an encoder error; the copy of the pixel data
\* exists only from the normalization on, is released at most once, is never
\* held once the image is released, and is released exactly once when there
\* was one.
C23_ReleasedExactlyOnce ==
    /\ handles.image_releases <= 1
    /\ handles.data_releases <= 1
    /\ handles.image = "released" => (encode_returned /\ handles.returned)
    /\ handles.data # "none" => encoded # NoEncoded
    /\ handles.data = "held" => (handles.image = "held" /\ encoded.tag = "Ok" /\ buf = NoBuf)
    /\ handles.returned =>
            /\ handles.image = "released"
            /\ handles.image_releases = 1
            /\ handles.data \in {"none", "released"}
            /\ handles.data = "released" <=> handles.data_releases = 1

C23_Witness ==
    /\ handles.returned
    /\ encode_result = ImageError
    /\ handles.image_releases = 1
    /\ handles.data_releases = 1

\* C24: add leaves the existing items as they are and puts the new item
\* after them; remove(id) leaves exactly the items with another id, in
\* their order and with every field as it was; toggle_favorite(id) keeps
\* every item in its place, leaves the items with another id untouched and
\* changes nothing but is_favorite in the item it matched.
OtherFields(item) ==
    [id |-> item.id, capture_type |-> item.capture_type, filename |-> item.filename,
     created_at |-> item.created_at]
C25_FromIdle ==
    (result.op \in {"start_recording", "stop_recording", "cancel_recording"}
        /\ result.pre = Idle) =>
            /\ result.ret.tag = "Err"
            /\ result.op # "start_recording" => result.ret = RecordingNotActive
            /\ result.writes = <<>>
            /\ result.post = Idle
C25_StaysIdle ==
    []C25_FromIdle /\ [][recording_state = Idle => recording_state' = Idle]_vars

C25_Witness ==
    /\ recording_state = Idle
    /\ result.op = "cancel_recording"
    /\ result.pre = Idle
    /\ result.ret = RecordingNotActive
    /\ \E p \in Callers : pc[p] = "start_platform" /\ call[p].pre = Idle

\* C26: a step in which a capture command returns an error, be it the
\* capture that failed, the creation of the directory, the write of the
\* artifact or the save of the history, leaves the in-memory history as it
\* was: an item is added only in a step that returns that item.
C26_ErrorLeavesHistory ==
    [][\A p \in Callers :
        (/\ pc[p] \in {"idle", "save_body"}
         /\ pc'[p] = "idle"
         /\ result' # result
         /\ result'.op \in CaptureCommands \cup {"save_screenshot"}
         /\ result'.ret.tag = "Err") => history' = history]_vars

====
